---- MODULE Spec2Model ----
(***************************************************************************)
(* Real-time auction service: the Authoritative Store (auctions, bids),    *)
(* the Timer Index, the bid admission protocol (PlaceBid with its OCC      *)
(* transaction), auction creation, finalization and the expiration worker. *)
(*                                                                         *)
(* Every access to a shared store (one SQL statement outside a             *)
(* transaction, one transaction statement, one Redis command) is one       *)
(* atomic step; the code between two such accesses is local to the         *)
(* goroutine and belongs to the step of the access that follows it.        *)
(* Transactions run at the database's default isolation (READ COMMITTED):  *)
(* every statement sees the rows committed before it.                      *)
(***************************************************************************)
EXTENDS Integers, Sequences, FiniteSets, TLC

\* ----------------------------------------------------------------- bounds
MaxAuctions == 2     \* auction rows ever created
MaxTime     == 1     \* the wall clock runs 0..MaxTime (clock ticks)
TicksPerSecond == 2  \* resolution of the clock: ticks in one second
MaxAmount   == 3     \* bid amounts are 0..MaxAmount
MaxFin      == 2     \* finalization attempts in flight at once
MaxFaults   == 1     \* transient store / bus failures injected in a run
SinkCap     == 1     \* capacity of a local event channel (100 in the code)
MaxFrames   == 2     \* frames recorded for a session whose channel is closed

\* ------------------------------------------------------ program constants
BatchSize == 10

AuctionIds == 1..MaxAuctions
Items      == {"it1"}                   \* rows of the items table
ItemIds    == Items \cup {"it0"}        \* "it0": an id with no row
Users      == {"u1", "u2"}              \* rows of the users table
Clients    == {"c1", "c2"}              \* sessions (server-assigned ids)
WorkerIds  == {"w1", "w2"}              \* service instances
Amounts    == 0..MaxAmount
Times      == 0..MaxTime
Prices     == {0, 1}                    \* starting prices a request may carry

\* time.Time.Unix(): whole seconds since the epoch, the fraction is dropped
Unix(t) == t \div TicksPerSecond

\* the user id a session was opened with (?user_id=...); session "c3" was
\* opened with an id that has no row in the users table
UserOf(c) == IF c = "c1" THEN "u1" ELSE IF c = "c2" THEN "u2" ELSE "u0"

NoScore == -1
NoRow   == [status |-> "none", item |-> "", startTime |-> 0, endTime |-> 0,
            startingPrice |-> 0, currentPrice |-> 0]
NoBid   == [auction |-> 0, user |-> "none", amount |-> 0, createdAt |-> 0]

VARIABLES
    now,               \* wall clock, seconds
    auctions,          \* AS: auctions table, id -> row (NoRow: no such row)
    bids,              \* AS: committed rows of the bids table, in commit order
    ti,                \* Timer Index "auction:expirations": member -> score
    clientsToAuction,  \* broadcaster: set of <<client id, auction>> subscriptions
    bus,               \* events accepted by the Event Bus, in publication order
    call,              \* per session: the request being handled and its position
    fin,               \* finalization attempts in flight: a bag of goroutines
    workers,           \* the instances whose expiration worker runs
    budget,            \* transient failures the stores may still produce
    endResults,        \* per auction: finalization attempts that returned a result
    won,               \* per auction and expected price: admissions committed
    subscribers,       \* broadcaster: the ids that have a local channel registered
    pubsubs,           \* broadcaster: id -> Redis channels of its pubsub connection
    listening,         \* the ids whose listenForRedisMessages goroutine runs
    inbox,             \* id -> messages Redis pushed to its pubsub, not yet forwarded
    sinks,             \* id -> content of its local event channel
    chanClosed,        \* the ids whose local event channel is closed
    frames,            \* session -> event frames its event listener has sent
    drops,             \* id -> "Local channel full" warnings logged
    owed,              \* session -> bids committed while it has been subscribed
    registry,          \* handler.clients: the registered sessions
    evch,              \* handler.eventChannels: the sessions that have an entry
    cancelled,         \* the sessions whose context is cancelled
    stopped,           \* the sessions whose Stop has run (conn and sendChan closed)
    running,           \* session -> its goroutines that have not returned
    pool,              \* session -> frames submitted to its worker pool, not yet handled
    sendq,             \* session -> content of its sendChan
    wire,              \* session -> writes to its connection: <<goroutine, message>>
    fatal,             \* session -> the failures that have happened on it
    sending,           \* session -> Sends past the stopped check: <<goroutine, message>>
    crashed            \* an unrecovered panic has ended the process

\* the broadcaster's tables and the event path behind them
ebVars == <<subscribers, pubsubs, listening, inbox, sinks, chanClosed, frames,
            drops, owed>>

\* the sessions of the WebSocket handler
wsVars == <<registry, evch, cancelled, stopped, running, pool, sendq, wire, fatal,
            sending, crashed>>

vars == <<now, auctions, bids, ti, clientsToAuction, bus, call, fin, workers,
          budget, endResults, won, ebVars, wsVars>>

\* ------------------------------------------------------------ domain model
IsEnded(row) == row.status = "ended"

CanBid(row) == row.status = "active"

AuctionStarted(row, t) == row.startTime < t

EndAuctionRow(row) == [row EXCEPT !.status = "ended"]

\* ------------------------------------------------------------ repositories
\* SELECT ... FROM auctions WHERE item_id = $1 AND status = 'active'
GetActiveByItemID(item) ==
    {a \in AuctionIds : auctions[a].status = "active" /\ auctions[a].item = item}

BidsOf(a) == {i \in 1..Len(bids) : bids[i].auction = a}

\* SELECT ... WHERE auction_id = $1 AND status = 'accepted'
\* ORDER BY amount DESC, created_at ASC LIMIT 1: the rows the query may return
\* (rows equal in both keys come in no defined order); {NoBid} for sql.ErrNoRows.
GetHighestBid(a) ==
    IF BidsOf(a) = {} THEN {NoBid}
    ELSE {bids[j] : j \in {i \in BidsOf(a) :
            \A k \in BidsOf(a) :
                \/ bids[k].amount < bids[i].amount
                \/ /\ bids[k].amount = bids[i].amount
                   /\ bids[k].createdAt >= bids[i].createdAt}}

\* ------------------------------------------------------------------ faults
\* A store or bus operation may fail transiently while the budget lasts.
Outcomes == IF budget > 0 THEN {"ok", "err"} ELSE {"ok"}

Charge(o) == budget' = IF o = "err" THEN budget - 1 ELSE budget

\* ------------------------------------------------------------------- calls
IdleCall == [pc |-> "idle", a |-> 0, amount |-> 0, exp |-> 0, sp |-> 0,
             at |-> 0, item |-> "", st |-> 0, en |-> 0, ret |-> "none"]

\* the service call returns r to the handler
Return(r) == [IdleCall EXCEPT !.pc = "done", !.ret = r]

\* ------------------------------------------------------------ bag helpers
Count(B, x) == IF x \in DOMAIN B THEN B[x] ELSE 0

Put(B, x) == [y \in DOMAIN B \cup {x} |-> Count(B, y) + (IF y = x THEN 1 ELSE 0)]

Take(B, x) == [y \in {z \in DOMAIN B : z # x \/ B[z] > 1} |->
                  B[y] - (IF y = x THEN 1 ELSE 0)]

Size(B) == LET RECURSIVE Sum(_)
               Sum(S) == IF S = {} THEN 0
                         ELSE LET x == CHOOSE y \in S : TRUE IN B[x] + Sum(S \ {x})
           IN Sum(DOMAIN B)

EmptyBag == [x \in {} |-> 0]

\* -------------------------------------------------------------- broadcaster
\* the keys of the broadcaster's maps: session ids, and the user ids PlaceBid
\* subscribes under
SessionIds == Clients \cup {"c3"}

EbIds == SessionIds \cup Users

\* no entry in r.pubsubs
NoPubSub == {0}

\* the zero outbound.Event, which a receive from a closed channel yields
ZeroEvent == [type |-> "", auction |-> 0, user |-> "", amount |-> 0]

\* the maps of RedisBroadcaster and what its operations reach through them
EbTables ==
    [cta |-> clientsToAuction, subscribers |-> subscribers, pubsubs |-> pubsubs,
     listening |-> listening, chanClosed |-> chanClosed, inbox |-> inbox]

SetTables(t) ==
    /\ clientsToAuction' = t.cta
    /\ subscribers' = t.subscribers
    /\ pubsubs' = t.pubsubs
    /\ listening' = t.listening
    /\ chanClosed' = t.chanClosed
    /\ inbox' = t.inbox

\* Subscribe that drops the subscription it finds
SubscribeOpStrict(t, id, a, o) ==
    IF <<id, a>> \in t.cta THEN [t EXCEPT !.cta = @ \ {<<id, a>>}]
    ELSE [t EXCEPT !.cta = @ \cup {<<id, a>>},
                   !.subscribers = @ \cup {id},
                   !.pubsubs[id] = (IF @ = NoPubSub THEN {} ELSE @)
                                      \cup (IF o = "ok" THEN {a} ELSE {}),
                   !.listening = IF t.pubsubs[id] = NoPubSub THEN @ \cup {id} ELSE @]

\* RedisBroadcaster.Subscribe(auction a, client id, channel), o the outcome of
\* pubsub.Subscribe: an existing subscription returns at once; else the channel
\* is registered if the id has none, the subscription is recorded, the id's
\* pubsub is taken or created (with its listener goroutine), and the Redis
\* channel is subscribed
SubscribeOp(t, id, a, o) ==
    IF <<id, a>> \in t.cta THEN t
    ELSE [t EXCEPT !.cta = @ \cup {<<id, a>>},
                   !.subscribers = @ \cup {id},
                   !.pubsubs[id] = (IF @ = NoPubSub THEN {} ELSE @)
                                      \cup (IF o = "ok" THEN {a} ELSE {}),
                   !.listening = IF t.pubsubs[id] = NoPubSub THEN @ \cup {id} ELSE @]

\* Subscribe reaches the transport only for a new subscription
SubOutcomes(id, a) == IF <<id, a>> \in clientsToAuction THEN {"ok"} ELSE Outcomes

\* Unsubscribe that leaves the channel open and the pubsub in place
UnsubscribeOpKeep(t, id, a, o) ==
    [t EXCEPT !.cta = @ \ {<<id, a>>}]

\* RedisBroadcaster.Unsubscribe(auction a, client id), o the outcome of
\* pubsub.Unsubscribe: the auction is deleted from the id's entry; when the
\* entry is empty the id's channel is closed and removed and its pubsub closed
\* and removed (closing a channel that is closed already panics, after the
\* entry was deleted and before anything else); else the Redis channel is
\* unsubscribed
UnsubscribeOp(t, id, a, o) ==
    LET rest == t.cta \ {<<id, a>>} IN
    IF ~(\E b \in AuctionIds : <<id, b>> \in t.cta) THEN t
    ELSE IF \E b \in AuctionIds : <<id, b>> \in rest
    THEN [t EXCEPT !.cta = rest,
                   !.pubsubs[id] = IF o = "ok" /\ @ # NoPubSub THEN @ \ {a} ELSE @]
    ELSE IF id \in t.subscribers /\ id \in t.chanClosed
    THEN [t EXCEPT !.cta = rest]
    ELSE [t EXCEPT !.cta = rest,
                   !.subscribers = @ \ {id},
                   !.chanClosed = IF id \in t.subscribers THEN @ \cup {id} ELSE @,
                   !.pubsubs[id] = NoPubSub,
                   !.listening = @ \ {id},
                   !.inbox[id] = <<>>]

\* Unsubscribe reaches a fallible transport call only when other auctions remain
UnsubOutcomes(id, a) ==
    IF \E b \in AuctionIds \ {a} : <<id, b>> \in clientsToAuction
    THEN Outcomes ELSE {"ok"}

\* RedisBroadcaster.GetSubscribers(auction a): the ids of all registered
\* channels; the auction is not looked at
GetSubscribers(t, a) == t.subscribers

\* a PUBLISH that puts the message in front of what the connections hold
DeliverFront(ps, ib, a, ev) ==
    [id \in EbIds |-> IF ps[id] # NoPubSub /\ a \in ps[id]
                      THEN <<ev>> \o ib[id] ELSE ib[id]]

\* PUBLISH auction:<a>: Redis pushes the message to every pubsub connection
\* subscribed to the channel
Deliver(ps, ib, a, ev) ==
    [id \in EbIds |-> IF ps[id] # NoPubSub /\ a \in ps[id]
                      THEN Append(ib[id], ev) ELSE ib[id]]

\* the tables and queues of a broadcaster whose subscriptions are S
EbInit(S) ==
    /\ subscribers = {p[1] : p \in S}
    /\ pubsubs = [id \in EbIds |->
                    IF \E p \in S : p[1] = id
                    THEN {p[2] : p \in {q \in S : q[1] = id}}
                    ELSE NoPubSub]
    /\ listening = {p[1] : p \in S}
    /\ inbox = [id \in EbIds |-> <<>>]
    /\ sinks = [id \in EbIds |-> <<>>]
    /\ chanClosed = {}
    /\ frames = [c \in SessionIds |-> <<>>]
    /\ drops = [id \in EbIds |-> 0]
    /\ owed = [c \in SessionIds |-> {}]

\* the goroutines HandleWebSocket starts for a session: messageReceiver,
\* messageSender, listenForClientEvents and the one that waits for ctx.Done
Goroutines == {"reader", "writer", "events", "watch"}

\* capacity of a session's sendChan (100 in the code)
SendCap == 1

\* every session connected: registered, with its event channel, its goroutines
\* started, nothing read or written yet
WsInit ==
    /\ registry = SessionIds
    /\ evch = SessionIds
    /\ cancelled = {}
    /\ stopped = {}
    /\ running = [c \in SessionIds |-> Goroutines]
    /\ pool = [c \in SessionIds |-> <<>>]
    /\ sendq = [c \in SessionIds |-> <<>>]
    /\ wire = [c \in SessionIds |-> <<>>]
    /\ fatal = [c \in SessionIds |-> {}]
    /\ sending = [c \in SessionIds |-> <<>>]
    /\ crashed = FALSE

\* ----------------------------------------------------------- initial states
\* the state after construction over an empty store
Init ==
    /\ now = 0
    /\ auctions = [a \in AuctionIds |-> NoRow]
    /\ bids = <<>>
    /\ ti = [a \in AuctionIds |-> NoScore]
    /\ clientsToAuction = {}
    /\ bus = <<>>
    /\ call = [c \in Clients |-> IdleCall]
    /\ fin = EmptyBag
    /\ workers = WorkerIds
    /\ budget = MaxFaults
    /\ endResults = [a \in AuctionIds |-> 0]
    /\ won = [a \in AuctionIds |-> [p \in Amounts |-> 0]]
    /\ EbInit(clientsToAuction)
    /\ WsInit

\* the wall clock advances
ClockTick ==
    /\ now < MaxTime
    /\ now' = now + 1
    /\ UNCHANGED <<auctions, bids, ti, clientsToAuction, bus, call, fin, workers,
                   budget, endResults, won, ebVars, wsVars>>

\* ------------------------------------------------------------ subscription
\* handleSubscribe: broadcaster.Subscribe with the session's event channel; on
\* an error no response is sent
Subscribe(c, a) ==
    /\ \E o \in SubOutcomes(c, a) :
        /\ Charge(o)
        /\ SetTables(SubscribeOp(EbTables, c, a, o))
    /\ UNCHANGED <<now, auctions, bids, ti, bus, call, fin, workers, endResults, won,
                   sinks, frames, drops, owed, wsVars>>

\* handleUnsubscribe: broadcaster.Unsubscribe under the session's id
Unsubscribe(c, a) ==
    /\ \E o \in UnsubOutcomes(c, a) :
        /\ Charge(o)
        /\ SetTables(UnsubscribeOp(EbTables, c, a, o))
    /\ owed' = [owed EXCEPT ![c] = {i \in @ : bids[i].auction # a}]
    /\ UNCHANGED <<now, auctions, bids, ti, bus, call, fin, workers, endResults, won,
                   sinks, frames, drops, wsVars>>

\* capacity of the channel PlaceBid makes for its Subscribe
BidChanCap == 10

\* capacity of the local channel of id: a session's event channel, or the
\* channel PlaceBid made for a user id
Cap(id) == IF id \in SessionIds THEN SinkCap ELSE BidChanCap

\* the listener with a full channel losing the event without a trace
ListenSilent(id) ==
    /\ id \in listening
    /\ inbox[id] # <<>>
    /\ inbox' = [inbox EXCEPT ![id] = Tail(@)]
    /\ IF id \in chanClosed
       THEN /\ listening' = listening \ {id}
            /\ UNCHANGED <<sinks, drops>>
       ELSE /\ listening' = listening
            /\ IF Len(sinks[id]) < Cap(id)
               THEN /\ sinks' = [sinks EXCEPT ![id] = Append(@, Head(inbox[id]))]
                    /\ drops' = drops
               ELSE /\ sinks' = sinks
                    /\ drops' = drops
    /\ UNCHANGED <<now, auctions, bids, ti, clientsToAuction, bus, call, fin, workers,
                   budget, endResults, won, subscribers, pubsubs, chanClosed, frames,
                   owed, wsVars>>

\* listenForRedisMessages of id, one message: forwarded to the local channel,
\* or dropped with a warning when the channel is full; the send panics when the
\* channel is closed and the recovered goroutine ends
Listen(id) ==
    /\ id \in listening
    /\ inbox[id] # <<>>
    /\ inbox' = [inbox EXCEPT ![id] = Tail(@)]
    /\ IF id \in chanClosed
       THEN /\ listening' = listening \ {id}
            /\ UNCHANGED <<sinks, drops>>
       ELSE /\ listening' = listening
            /\ IF Len(sinks[id]) < Cap(id)
               THEN /\ sinks' = [sinks EXCEPT ![id] = Append(@, Head(inbox[id]))]
                    /\ drops' = drops
               ELSE /\ sinks' = sinks
                    /\ drops' = [drops EXCEPT ![id] = @ + 1]
    /\ UNCHANGED <<now, auctions, bids, ti, clientsToAuction, bus, call, fin, workers,
                   budget, endResults, won, subscribers, pubsubs, chanClosed, frames,
                   owed, wsVars>>

\* listenForClientEvents of session c, one event: converted to a frame and
\* sent to the session
HandlerListen(c) ==
    /\ sinks[c] # <<>>
    /\ sinks' = [sinks EXCEPT ![c] = Tail(@)]
    /\ frames' = [frames EXCEPT ![c] = Append(@, Head(sinks[c]))]
    /\ UNCHANGED <<now, auctions, bids, ti, clientsToAuction, bus, call, fin, workers,
                   budget, endResults, won, subscribers, pubsubs, listening, inbox,
                   chanClosed, drops, owed, wsVars>>

\* listenForClientEvents of session c when its channel is closed and empty:
\* the receive yields the zero event, which is sent as a frame
HandlerListenClosed(c) ==
    /\ c \in chanClosed
    /\ sinks[c] = <<>>
    /\ Len(frames[c]) < MaxFrames
    /\ frames' = [frames EXCEPT ![c] = Append(@, ZeroEvent)]
    /\ UNCHANGED <<now, auctions, bids, ti, clientsToAuction, bus, call, fin, workers,
                   budget, endResults, won, subscribers, pubsubs, listening, inbox,
                   sinks, chanClosed, drops, owed, wsVars>>

IsSubscribed(a, c) == <<c, a>> \in clientsToAuction

\* ---------------------------------------------------------- CreateAuction
\* uuid.New(): an id no row and no request in flight has
UsedIds == {a \in AuctionIds : auctions[a] # NoRow}
              \cup {call[c].a : c \in {d \in Clients :
                       call[d].pc \in {"cr_insert", "cr_sched"}}}

FreshId == CHOOSE a \in AuctionIds \ UsedIds : \A b \in AuctionIds \ UsedIds : a <= b

\* the validation chain without the active-auction check
CreateCheckNoActive(item, c, st, en, price, active) ==
    IF item \notin Items THEN "ItemNotFound"
    ELSE IF UserOf(c) \notin Users THEN "UserNotFound"
    ELSE IF st < now THEN "InvalidStartTime"
    ELSE IF en < st THEN "InvalidEndTime"
    ELSE IF price <= 0 THEN "InvalidStartingPrice"
    ELSE "ok"

\* the validation chain of CreateAuction up to the active-auction check
CreateCheck(item, c, st, en, price, active) ==
    IF item \notin Items THEN "ItemNotFound"
    ELSE IF UserOf(c) \notin Users THEN "UserNotFound"
    ELSE IF st < now THEN "InvalidStartTime"
    ELSE IF en < st THEN "InvalidEndTime"
    ELSE IF price <= 0 THEN "InvalidStartingPrice"
    ELSE IF active # {} THEN "ItemAlreadyInAuction"
    ELSE "ok"

\* CreateAuction up to and including GetActiveByItemID and building the row
CreateAuction(c, item, st, en, price) ==
    /\ call[c].pc = "idle"
    /\ AuctionIds \ UsedIds # {}
    /\ LET r == CreateCheck(item, c, st, en, price, GetActiveByItemID(item)) IN
        call' = [call EXCEPT ![c] =
            IF r = "ok"
            THEN [IdleCall EXCEPT !.pc = "cr_insert", !.a = FreshId, !.item = item,
                                  !.st = st, !.en = en, !.sp = price]
            ELSE Return(r)]
    /\ UNCHANGED <<now, auctions, bids, ti, clientsToAuction, bus, fin, workers,
                   budget, endResults, won, ebVars, wsVars>>

\* the row CreateAuction builds: status active, current price = starting price
NewAuctionRow(item, st, en, price) ==
    [status |-> "active", item |-> item, startTime |-> st, endTime |-> en,
     startingPrice |-> price, currentPrice |-> price]

\* auctionRepo.Create: INSERT INTO auctions
CreateInsert(c) ==
    /\ call[c].pc = "cr_insert"
    /\ \E o \in Outcomes :
        /\ Charge(o)
        /\ IF o = "ok"
           THEN /\ auctions' = [auctions EXCEPT ![call[c].a] =
                        NewAuctionRow(call[c].item, call[c].st, call[c].en, call[c].sp)]
                /\ call' = [call EXCEPT ![c].pc = "cr_sched"]
           ELSE /\ auctions' = auctions
                /\ call' = [call EXCEPT ![c] = Return("DatabaseError")]
    /\ UNCHANGED <<now, bids, ti, clientsToAuction, bus, fin, workers, endResults, won, ebVars,
                   wsVars>>

\* scheduler.ScheduleAuction: ZADD auction:expirations end_time id; a failure
\* is logged and the creation still succeeds
ScheduleAuction(c) ==
    /\ call[c].pc = "cr_sched"
    /\ \E o \in Outcomes :
        /\ Charge(o)
        /\ ti' = IF o = "ok" THEN [ti EXCEPT ![call[c].a] = Unix(call[c].en)] ELSE ti
    /\ call' = [call EXCEPT ![c] = Return("created")]
    /\ UNCHANGED <<now, auctions, bids, clientsToAuction, bus, fin, workers,
                   endResults, won, ebVars, wsVars>>

\* the handler sends the response frame and the worker takes the next frame
Respond(c) ==
    /\ call[c].pc = "done"
    /\ call' = [call EXCEPT ![c] = IdleCall]
    /\ UNCHANGED <<now, auctions, bids, ti, clientsToAuction, bus, fin, workers,
                   budget, endResults, won, ebVars, wsVars>>

\* ---------------------------------------------------------------- sessions
\* frames a peer may send besides the requests modelled above: one that does
\* not parse, and a ping
FrameKinds == {"bad", "ping"}

\* frames read from, and messages queued or written for, one session
MaxWire == 2

\* the pong and the error message of a session, as server messages
PongMsg == [ZeroEvent EXCEPT !.type = "pong"]
ErrorMsg == [ZeroEvent EXCEPT !.type = "error"]

\* what a session has read, queued and written so far
Traffic(c) == Len(pool[c]) + Len(sending[c]) + Len(sendq[c]) + Len(wire[c])

\* WsClient.Send, first part: under the mutex, the client is not stopped
SendCheck(c) == c \notin stopped

\* the goroutine is inside a Send that has passed the check
InSend(c, g) == \E i \in 1..Len(sending[c]) : sending[c][i][1] = g

RemoveAt(q, i) == SubSeq(q, 1, i - 1) \o SubSeq(q, i + 1, Len(q))

\* messageReceiver, one pass: ReadMessage returns a frame, which is submitted
\* to the worker pool
ReadFrame(c, f) ==
    /\ ~crashed
    /\ "reader" \in running[c]
    /\ c \notin stopped
    /\ Traffic(c) < MaxWire
    /\ pool' = [pool EXCEPT ![c] = Append(@, f)]
    /\ UNCHANGED <<now, auctions, bids, ti, clientsToAuction, bus, call, fin, workers,
                   budget, endResults, won, ebVars, registry, evch, cancelled, stopped,
                   running, sendq, wire, fatal, sending, crashed>>

\* the peer closes the transport: ReadMessage returns an error, messageReceiver
\* cancels the context and returns
PeerClose(c) ==
    /\ ~crashed
    /\ "reader" \in running[c]
    /\ c \notin stopped
    /\ cancelled' = cancelled \cup {c}
    /\ running' = [running EXCEPT ![c] = @ \ {"reader"}]
    /\ UNCHANGED <<now, auctions, bids, ti, clientsToAuction, bus, call, fin, workers,
                   budget, endResults, won, ebVars, registry, evch, stopped, pool,
                   sendq, wire, fatal, sending, crashed>>

\* config.WSMaxWorkers: the workers of a session's pool
WSMaxWorkers == 10

\* the frames of c a worker may be running: the pool hands the queued frames
\* to its workers in order, and up to WSMaxWorkers handlers run at once
Taken(c) == {i \in 1..Len(pool[c]) : i <= WSMaxWorkers}

\* a worker of the pool runs handleMessage on a submitted frame. A frame that
\* does not parse is an error, and the worker writes the error message to the
\* connection itself; a ping is answered through Send, whose check of the
\* stopped flag is made here (a stopped client is an error, written to the
\* closed connection in vain)
Worker(c) ==
    /\ ~crashed
    /\ \E i \in Taken(c) :
        /\ pool[c][i] \in FrameKinds
        /\ pool' = [pool EXCEPT ![c] = RemoveAt(@, i)]
        /\ IF pool[c][i] = "ping"
           THEN /\ sending' = [sending EXCEPT ![c] =
                      IF SendCheck(c) THEN Append(@, <<"worker", PongMsg>>) ELSE @]
                /\ UNCHANGED <<wire, fatal>>
           ELSE /\ wire' = [wire EXCEPT ![c] =
                      IF c \in stopped THEN @ ELSE Append(@, <<"worker", ErrorMsg>>)]
                /\ fatal' = [fatal EXCEPT ![c] = @ \cup {"unparseable"}]
                /\ sending' = sending
    /\ UNCHANGED <<now, auctions, bids, ti, clientsToAuction, bus, call, fin, workers,
                   budget, endResults, won, ebVars, registry, evch, cancelled, stopped,
                   running, sendq, crashed>>

\* the confirmation of a subscribe, as a server message
SubscribedMsg == [ZeroEvent EXCEPT !.type = "subscribed"]

\* a worker runs handleSubscribe on a subscribe frame for auction 1: a session
\* without an event channel is an error; else broadcaster.Subscribe with the
\* session's channel, whose error is returned (and written by the worker), and
\* on success the confirmation goes to Send
WorkerSubscribe(c, i) ==
    /\ ~crashed
    /\ i \in Taken(c)
    /\ pool[c][i] = "subscribe"
    /\ pool' = [pool EXCEPT ![c] = RemoveAt(@, i)]
    /\ IF c \notin evch
       THEN /\ wire' = [wire EXCEPT ![c] =
                  IF c \in stopped THEN @ ELSE Append(@, <<"worker", ErrorMsg>>)]
            /\ UNCHANGED <<clientsToAuction, subscribers, pubsubs, listening,
                           chanClosed, inbox, budget, sending>>
       ELSE \E o \in SubOutcomes(c, 1) :
            /\ Charge(o)
            /\ SetTables(SubscribeOp(EbTables, c, 1, o))
            /\ IF o = "ok"
               THEN /\ sending' = [sending EXCEPT ![c] =
                          IF SendCheck(c) THEN Append(@, <<"worker", SubscribedMsg>>)
                          ELSE @]
                    /\ wire' = wire
               ELSE /\ wire' = [wire EXCEPT ![c] =
                          IF c \in stopped THEN @
                          ELSE Append(@, <<"worker", ErrorMsg>>)]
                    /\ sending' = sending
    /\ UNCHANGED <<now, auctions, bids, ti, bus, call, fin, workers, endResults, won,
                   sinks, frames, drops, owed, registry, evch, cancelled, stopped,
                   running, sendq, fatal, crashed>>

\* a worker runs handlePlaceBid on a place_bid frame for auction 1 carrying
\* amount amt: BidService.PlaceBid starts with the subscription check
WorkerPlaceBid(c, i, amt) ==
    /\ ~crashed
    /\ i \in Taken(c)
    /\ pool[c][i] = "place_bid"
    /\ call[c].pc = "idle"
    /\ pool' = [pool EXCEPT ![c] = RemoveAt(@, i)]
    /\ call' = [call EXCEPT ![c] =
          IF ~IsSubscribed(1, c) THEN Return("NotSubscribed")
          ELSE [IdleCall EXCEPT !.pc = "bid_get", !.a = 1, !.amount = amt]]
    /\ UNCHANGED <<now, auctions, bids, ti, clientsToAuction, bus, fin, workers,
                   budget, endResults, won, ebVars, registry, evch, cancelled, stopped,
                   running, sendq, wire, fatal, sending, crashed>>

\* WsClient.Send, second part, outside the mutex: the send on sendChan. With
\* room the message is queued; on a channel that stays full for 100 ms Send
\* returns an error (a worker then writes the error message itself, the event
\* listener logs it); on the channel Stop has closed the send panics, which
\* the worker pool recovers and the event listener's goroutine does not
SendEnqueue(c, i) ==
    /\ ~crashed
    /\ i \in 1..Len(sending[c])
    /\ sending' = [sending EXCEPT ![c] = RemoveAt(@, i)]
    /\ LET g == sending[c][i][1]
           msg == sending[c][i][2]
       IN  IF c \in stopped
           THEN /\ fatal' = [fatal EXCEPT ![c] = @ \cup {"send_on_closed"}]
                /\ crashed' = (g = "events")
                /\ running' = [running EXCEPT ![c] = @ \ ({g} \cap {"events"})]
                /\ UNCHANGED <<sendq, wire>>
           ELSE IF Len(sendq[c]) < SendCap
           THEN /\ sendq' = [sendq EXCEPT ![c] = Append(@, msg)]
                /\ UNCHANGED <<wire, fatal, crashed, running>>
           ELSE /\ fatal' = [fatal EXCEPT ![c] = @ \cup {"queue_full"}]
                /\ wire' = [wire EXCEPT ![c] =
                      IF g = "worker" THEN Append(@, <<"worker", ErrorMsg>>) ELSE @]
                /\ UNCHANGED <<sendq, crashed, running>>
    /\ UNCHANGED <<now, auctions, bids, ti, clientsToAuction, bus, call, fin, workers,
                   budget, endResults, won, ebVars, registry, evch, cancelled, stopped,
                   pool>>

\* messageSender takes a message from sendChan and writes it; a failed write
\* ends the goroutine
WriterSend(c) ==
    /\ ~crashed
    /\ "writer" \in running[c]
    /\ c \notin stopped
    /\ sendq[c] # <<>>
    /\ sendq' = [sendq EXCEPT ![c] = Tail(@)]
    /\ \E o \in Outcomes :
        /\ Charge(o)
        /\ IF o = "ok"
           THEN /\ wire' = [wire EXCEPT ![c] = Append(@, <<"writer", Head(sendq[c])>>)]
                /\ UNCHANGED <<running, fatal>>
           ELSE /\ running' = [running EXCEPT ![c] = @ \ {"writer"}]
                /\ fatal' = [fatal EXCEPT ![c] = @ \cup {"write_failure"}]
                /\ wire' = wire
    /\ UNCHANGED <<now, auctions, bids, ti, clientsToAuction, bus, call, fin, workers,
                   endResults, won, ebVars, registry, evch, cancelled, stopped, pool,
                   sending, crashed>>

\* messageSender returns: the context is done, or sendChan and the connection
\* are closed and the write of what it receives fails
WriterExit(c) ==
    /\ ~crashed
    /\ "writer" \in running[c]
    /\ c \in cancelled
    /\ running' = [running EXCEPT ![c] = @ \ {"writer"}]
    /\ UNCHANGED <<now, auctions, bids, ti, clientsToAuction, bus, call, fin, workers,
                   budget, endResults, won, ebVars, registry, evch, cancelled, stopped,
                   pool, sendq, wire, fatal, sending, crashed>>

\* listenForClientEvents receives an event from the session's event channel
\* (the zero event when the channel is closed and empty), converts it and
\* calls Send, whose check of the stopped flag is made here; an error of Send
\* is logged
EventSend(c) ==
    /\ ~crashed
    /\ "events" \in running[c]
    /\ ~InSend(c, "events")
    /\ \/ sinks[c] # <<>>
       \/ c \in chanClosed /\ c \notin stopped /\ Traffic(c) < MaxWire
    /\ LET ev == IF sinks[c] # <<>> THEN Head(sinks[c]) ELSE ZeroEvent IN
        /\ sinks' = [sinks EXCEPT ![c] = IF @ # <<>> THEN Tail(@) ELSE @]
        /\ sending' = [sending EXCEPT ![c] =
              IF SendCheck(c) THEN Append(@, <<"events", ev>>) ELSE @]
    /\ UNCHANGED <<now, auctions, bids, ti, clientsToAuction, bus, call, fin, workers,
                   budget, endResults, won, subscribers, pubsubs, listening, inbox,
                   chanClosed, frames, drops, owed, registry, evch, cancelled, stopped,
                   running, pool, sendq, wire, fatal, crashed>>

\* listenForClientEvents returns when the context is done
EventsExit(c) ==
    /\ ~crashed
    /\ "events" \in running[c]
    /\ ~InSend(c, "events")
    /\ c \in cancelled
    /\ running' = [running EXCEPT ![c] = @ \ {"events"}]
    /\ UNCHANGED <<now, auctions, bids, ti, clientsToAuction, bus, call, fin, workers,
                   budget, endResults, won, ebVars, registry, evch, cancelled, stopped,
                   pool, sendq, wire, fatal, sending, crashed>>

\* the goroutine waiting for ctx.Done runs unregisterClient: the session
\* leaves the registry, Stop cancels, closes the connection and sendChan and
\* stops the pool (queued frames are not run), and removeEventChannel closes
\* and forgets the event channel; closing a channel the broadcaster closed
\* already panics in this goroutine, which nothing recovers. The broadcaster is
\* not told
Unregister(c) ==
    /\ ~crashed
    /\ "watch" \in running[c]
    /\ c \in cancelled
    /\ registry' = registry \ {c}
    /\ stopped' = stopped \cup {c}
    /\ pool' = [pool EXCEPT ![c] = <<>>]
    /\ running' = [running EXCEPT ![c] = @ \ {"watch"}]
    /\ IF c \in evch /\ c \in chanClosed
       THEN /\ crashed' = TRUE
            /\ UNCHANGED <<evch, chanClosed>>
       ELSE /\ crashed' = crashed
            /\ evch' = evch \ {c}
            /\ chanClosed' = IF c \in evch THEN chanClosed \cup {c} ELSE chanClosed
    /\ UNCHANGED <<now, auctions, bids, ti, clientsToAuction, bus, call, fin, workers,
                   budget, endResults, won, subscribers, pubsubs, listening, inbox,
                   sinks, frames, drops, owed, cancelled, sendq, wire, fatal, sending>>

\* ---------------------------------------------------------------- PlaceBid
\* PlaceBid, first check: broadcaster.IsSubscribed(auction, client id)
PlaceBid(c, a, amt) ==
    /\ call[c].pc = "idle"
    /\ call' = [call EXCEPT ![c] =
          IF ~IsSubscribed(a, c) THEN Return("NotSubscribed")
          ELSE [IdleCall EXCEPT !.pc = "bid_get", !.a = a, !.amount = amt]]
    /\ UNCHANGED <<now, auctions, bids, ti, clientsToAuction, bus, fin, workers,
                   budget, endResults, won, ebVars, wsVars>>

\* the checks with the user looked up before the auction's status
BidCheckUserFirst(row, user, amt, t) ==
    IF row = NoRow THEN "AuctionNotFound"
    ELSE IF user \notin Users THEN "UserNotFound"
    ELSE IF ~CanBid(row) THEN "AuctionNotAcceptingBids"
    ELSE IF ~AuctionStarted(row, t) THEN "AuctionNotStarted"
    ELSE IF amt <= 0 THEN "BidAmountInvalid"
    ELSE "ok"

\* the checks of PlaceBid on the auction row it read, the user and the amount
BidCheck(row, user, amt, t) ==
    IF row = NoRow THEN "AuctionNotFound"
    ELSE IF ~CanBid(row) THEN "AuctionNotAcceptingBids"
    ELSE IF ~AuctionStarted(row, t) THEN "AuctionNotStarted"
    ELSE IF user \notin Users THEN "UserNotFound"
    ELSE IF amt <= 0 THEN "BidAmountInvalid"
    ELSE "ok"

\* auctionRepo.GetByID, then the checks up to the amount's sign; the price read
\* here is the expected current price of the OCC transaction
BidGetAuction(c) ==
    /\ call[c].pc = "bid_get"
    /\ LET row == auctions[call[c].a]
           r   == BidCheck(row, UserOf(c), call[c].amount, now) IN
        call' = [call EXCEPT ![c] =
          IF r = "ok"
          THEN [call[c] EXCEPT !.pc = "bid_high", !.exp = row.currentPrice,
                               !.sp = row.startingPrice]
          ELSE Return(r)]
    /\ UNCHANGED <<now, auctions, bids, ti, clientsToAuction, bus, fin, workers,
                   budget, endResults, won, ebVars, wsVars>>

\* the comparison of the amount with the highest bid, else the starting price
HighestCheck(hb, amt, sp) ==
    IF hb # NoBid /\ amt <= hb.amount THEN "BidAmountTooLow"
    ELSE IF hb = NoBid /\ amt <= sp THEN "BidAmountBelowStarting"
    ELSE "ok"

\* bidRepo.GetHighestBid, the comparison, and the candidate bid (created now)
BidGetHighest(c) ==
    /\ call[c].pc = "bid_high"
    /\ \E hb \in GetHighestBid(call[c].a) :
        LET r == HighestCheck(hb, call[c].amount, call[c].sp) IN
        call' = [call EXCEPT ![c] =
          IF r = "ok" THEN [call[c] EXCEPT !.pc = "bid_occ", !.at = now]
          ELSE Return(r)]
    /\ UNCHANGED <<now, auctions, bids, ti, clientsToAuction, bus, fin, workers,
                   budget, endResults, won, ebVars, wsVars>>

\* PlaceBidWithOCC, the checks on the row its SELECT returns
OccCheck(row, amt, expected) ==
    IF row = NoRow THEN "AuctionNotFound"
    ELSE IF row.status # "active" THEN "AuctionNotAcceptingBids"
    ELSE IF row.currentPrice # expected THEN "BidAmountTooLow"
    ELSE IF amt <= row.currentPrice THEN "BidAmountTooLow"
    ELSE "ok"

\* PlaceBidWithOCC: BEGIN; SELECT current_price, status; an error rolls back
OccSelect(c) ==
    /\ call[c].pc = "bid_occ"
    /\ LET r == OccCheck(auctions[call[c].a], call[c].amount, call[c].exp) IN
        call' = [call EXCEPT ![c] =
          IF r = "ok" THEN [call[c] EXCEPT !.pc = "bid_upd"] ELSE Return(r)]
    /\ UNCHANGED <<now, auctions, bids, ti, clientsToAuction, bus, fin, workers,
                   budget, endResults, won, ebVars, wsVars>>

\* UPDATE auctions SET current_price = $2 WHERE id = $1 AND current_price = $4:
\* whether the row matches
OccUpdateMatches(row, expected) == row # NoRow /\ row.currentPrice = expected

\* the transaction without its rollback: the inserted bid stays when the
\* conditional UPDATE affected no row
OccUpdateNoRollback(c) ==
    /\ call[c].pc = "bid_upd"
    /\ LET a == call[c].a IN
        /\ bids' = Append(bids, [auction |-> a, user |-> UserOf(c),
                                 amount |-> call[c].amount, createdAt |-> call[c].at])
        /\ IF OccUpdateMatches(auctions[a], call[c].exp)
           THEN /\ auctions' = [auctions EXCEPT ![a].currentPrice = call[c].amount]
                /\ won' = [won EXCEPT ![a][call[c].exp] = @ + 1]
                /\ call' = [call EXCEPT ![c].pc = "bid_pub"]
           ELSE /\ UNCHANGED <<auctions, won>>
                /\ call' = [call EXCEPT ![c] = Return("BidAmountTooLow")]
    /\ UNCHANGED <<now, ti, clientsToAuction, bus, fin, workers, budget, endResults, ebVars,
                   wsVars>>

\* PlaceBidWithOCC: INSERT the bid; the conditional UPDATE; COMMIT when it
\* affected a row, else ROLLBACK (the inserted bid is gone) and BidAmountTooLow.
\* The UPDATE waits for a writer holding the row, so it runs against the last
\* committed row and nothing comes between it and the COMMIT.
OccUpdate(c) ==
    /\ call[c].pc = "bid_upd"
    /\ LET a == call[c].a IN
        IF OccUpdateMatches(auctions[a], call[c].exp)
        THEN /\ auctions' = [auctions EXCEPT ![a].currentPrice = call[c].amount]
             /\ bids' = Append(bids, [auction |-> a, user |-> UserOf(c),
                                      amount |-> call[c].amount,
                                      createdAt |-> call[c].at])
             /\ won' = [won EXCEPT ![a][call[c].exp] = @ + 1]
             /\ owed' = [s \in SessionIds |->
                           IF <<s, a>> \in clientsToAuction
                           THEN owed[s] \cup {Len(bids) + 1} ELSE owed[s]]
             /\ call' = [call EXCEPT ![c].pc = "bid_pub"]
        ELSE /\ UNCHANGED <<auctions, bids, won, owed>>
             /\ call' = [call EXCEPT ![c] = Return("BidAmountTooLow")]
    /\ UNCHANGED <<now, ti, clientsToAuction, bus, fin, workers, budget, endResults,
                   subscribers, pubsubs, listening, inbox, sinks, chanClosed, frames,
                   drops, wsVars>>

BidPlacedEvent(a, user, amt) ==
    [type |-> "bid.placed", auction |-> a, user |-> user, amount |-> amt]

\* the failures among two outcomes
Errs(o1, o2) == (IF o1 = "err" THEN 1 ELSE 0) + (IF o2 = "err" THEN 1 ELSE 0)

\* the same with a failure of Subscribe or Publish returned to the caller
BidPublishStrict(c) ==
    /\ call[c].pc = "bid_pub"
    /\ LET u  == UserOf(c)
           a  == call[c].a
           ev == BidPlacedEvent(a, u, call[c].amount)
       IN \E os \in SubOutcomes(u, a), op \in Outcomes :
            /\ Errs(os, op) <= budget
            /\ budget' = budget - Errs(os, op)
            /\ LET t == SubscribeOp(EbTables, u, a, os) IN
                 SetTables([t EXCEPT !.inbox =
                     IF op = "ok" THEN Deliver(t.pubsubs, @, a, ev) ELSE @])
            /\ bus' = IF op = "ok" THEN Append(bus, ev) ELSE bus
            /\ call' = [call EXCEPT ![c] =
                 IF Errs(os, op) = 0 THEN Return("accepted") ELSE Return("PublishError")]
    /\ UNCHANGED <<now, auctions, bids, ti, fin, workers, endResults, won, sinks,
                   frames, drops, owed, wsVars>>

\* after the commit: broadcaster.Subscribe under the USER id with a channel
\* made here, then Publish of BidPlaced; a failure of either is logged and the
\* bid is returned all the same
BidPublish(c) ==
    /\ call[c].pc = "bid_pub"
    /\ LET u  == UserOf(c)
           a  == call[c].a
           ev == BidPlacedEvent(a, u, call[c].amount)
       IN \E os \in SubOutcomes(u, a), op \in Outcomes :
            /\ Errs(os, op) <= budget
            /\ budget' = budget - Errs(os, op)
            /\ LET t == SubscribeOp(EbTables, u, a, os) IN
                 SetTables([t EXCEPT !.inbox =
                     IF op = "ok" THEN Deliver(t.pubsubs, @, a, ev) ELSE @])
            /\ bus' = IF op = "ok" THEN Append(bus, ev) ELSE bus
    /\ call' = [call EXCEPT ![c] = Return("accepted")]
    /\ UNCHANGED <<now, auctions, bids, ti, fin, workers, endResults, won, sinks,
                   frames, drops, owed, wsVars>>

\* ------------------------------------------------------------ finalization
\* one attempt of endAuctionWithResult: kind "sched" is the worker's goroutine
\* endAuction, kind "api" a call of AuctionService.EndAuction
Attempt(kind, a) == [pc |-> "get", kind |-> kind, a |-> a, snap |-> NoRow, hb |-> NoBid]

\* ZRANGEBYSCORE auction:expirations 0 now LIMIT 0 BatchSize
Due(t) == {a \in AuctionIds : ti[a] # NoScore /\ ti[a] <= t}

Before(a, b) == ti[a] < ti[b] \/ (ti[a] = ti[b] /\ a < b)

Batch(t) == {a \in Due(t) : Cardinality({b \in Due(t) : Before(b, a)}) < BatchSize}

RECURSIVE Spawn(_, _)
Spawn(B, S) == IF S = {} THEN B
               ELSE LET a == CHOOSE x \in S : TRUE
                    IN Spawn(Put(B, Attempt("sched", a)), S \ {a})

\* schedulerLoop tick: checkExpiredAuctions starts one goroutine per due entry
\* and returns without waiting for them
CheckExpiredAuctions(w) ==
    /\ w \in workers
    /\ Batch(Unix(now)) # {}
    /\ Size(fin) + Cardinality(Batch(Unix(now))) <= MaxFin
    /\ fin' = Spawn(fin, Batch(Unix(now)))
    /\ UNCHANGED <<now, auctions, bids, ti, clientsToAuction, bus, call, workers,
                   budget, endResults, won, ebVars, wsVars>>

\* AuctionService.EndAuction called through the inbound port
EndAuction(a) ==
    /\ Size(fin) < MaxFin
    /\ fin' = Put(fin, Attempt("api", a))
    /\ UNCHANGED <<now, auctions, bids, ti, clientsToAuction, bus, call, workers,
                   budget, endResults, won, ebVars, wsVars>>

\* ZREM with a member that is not in the set (the id in another form): the
\* command succeeds and removes nothing
ZRemOtherMember(kind, a) == ti

\* defer ZREM auction:expirations id: runs when the worker's endAuction returns
ZRem(kind, a) == IF kind = "sched" THEN [ti EXCEPT ![a] = NoScore] ELSE ti

\* endAuctionWithResult: auctionRepo.GetByID and IsEnded; an error ends the
\* attempt (the worker then removes the Timer Index entry)
FinGet(r) ==
    /\ r \in DOMAIN fin /\ r.pc = "get"
    /\ \E o \in Outcomes :
        /\ Charge(o)
        /\ IF o = "err" \/ auctions[r.a] = NoRow \/ IsEnded(auctions[r.a])
           THEN /\ fin' = Take(fin, r)
                /\ ti' = ZRem(r.kind, r.a)
           ELSE /\ fin' = Put(Take(fin, r),
                              [r EXCEPT !.pc = "high",
                                        !.snap = EndAuctionRow(auctions[r.a])])
                /\ ti' = ti
    /\ UNCHANGED <<now, auctions, bids, clientsToAuction, bus, call, workers,
                   endResults, won, ebVars, wsVars>>

\* endAuctionWithResult: bidRepo.GetHighestBid; any error (no bids, or a
\* failure of the store) is logged and leaves no winner
FinHighest(r) ==
    /\ r \in DOMAIN fin /\ r.pc = "high"
    /\ \E o \in Outcomes :
        /\ Charge(o)
        /\ \E hb \in (IF o = "ok" THEN GetHighestBid(r.a) ELSE {NoBid}) :
              fin' = Put(Take(fin, r), [r EXCEPT !.pc = "upd", !.hb = hb])
    /\ UNCHANGED <<now, auctions, bids, ti, clientsToAuction, bus, call, workers,
                   endResults, won, ebVars, wsVars>>

\* auctionRepo.Update: UPDATE auctions SET <every column> WHERE id = $1, from
\* the row read by GetByID with status ended
UpdateRow(row, snap) == snap

\* endAuctionWithResult: auctionRepo.Update, then the result is returned
FinUpdate(r) ==
    /\ r \in DOMAIN fin /\ r.pc = "upd"
    /\ \E o \in Outcomes :
        /\ Charge(o)
        /\ IF o = "err"
           THEN /\ fin' = Take(fin, r)
                /\ ti' = ZRem(r.kind, r.a)
                /\ UNCHANGED <<auctions, endResults>>
           ELSE /\ auctions' = [auctions EXCEPT ![r.a] = UpdateRow(@, r.snap)]
                /\ endResults' = [endResults EXCEPT ![r.a] = @ + 1]
                /\ fin' = IF r.kind = "api" THEN Take(fin, r)
                          ELSE Put(Take(fin, r), [r EXCEPT !.pc = "pub"])
                /\ ti' = ti
    /\ UNCHANGED <<now, bids, clientsToAuction, bus, call, workers, won, ebVars,
                   wsVars>>

AuctionEndedEvent(a, hb) ==
    [type |-> "auction.ended", auction |-> a, user |-> hb.user, amount |-> hb.amount]

\* the worker's endAuction after a result: Publish AuctionEnded (a failure is
\* logged), then the deferred ZREM
FinPublish(r) ==
    /\ r \in DOMAIN fin /\ r.pc = "pub"
    /\ \E o \in Outcomes :
        /\ Charge(o)
        /\ bus' = IF o = "ok" THEN Append(bus, AuctionEndedEvent(r.a, r.hb)) ELSE bus
        /\ inbox' = IF o = "ok"
                    THEN Deliver(pubsubs, inbox, r.a, AuctionEndedEvent(r.a, r.hb))
                    ELSE inbox
    /\ fin' = Take(fin, r)
    /\ ti' = ZRem(r.kind, r.a)
    /\ UNCHANGED <<now, auctions, bids, clientsToAuction, call, workers, endResults, won,
                   subscribers, pubsubs, listening, sinks, chanClosed, frames, drops,
                   owed, wsVars>>

\* ------------------------------------------------------ next-state relations
CreateSteps ==
    \/ \E c \in Clients, item \in ItemIds, st \in Times, en \in Times, p \in Prices :
          CreateAuction(c, item, st, en, p)
    \/ \E c \in Clients : CreateInsert(c)
    \/ \E c \in Clients : ScheduleAuction(c)

PlaceBidSteps ==
    \/ \E c \in Clients, a \in AuctionIds, amt \in Amounts : PlaceBid(c, a, amt)
    \/ \E c \in Clients : BidGetAuction(c)
    \/ \E c \in Clients : BidGetHighest(c)
    \/ \E c \in Clients : OccSelect(c)
    \/ \E c \in Clients : OccUpdate(c)
    \/ \E c \in Clients : BidPublish(c)
    \/ \E c \in Clients : Respond(c)

FinSteps ==
    \/ \E w \in WorkerIds : CheckExpiredAuctions(w)
    \/ \E a \in AuctionIds : EndAuction(a)
    \/ \E r \in DOMAIN fin : FinGet(r)
    \/ \E r \in DOMAIN fin : FinHighest(r)
    \/ \E r \in DOMAIN fin : FinUpdate(r)
    \/ \E r \in DOMAIN fin : FinPublish(r)

Next ==
    \/ ClockTick
    \/ \E c \in Clients, a \in AuctionIds : Subscribe(c, a)
    \/ \E c \in Clients, a \in AuctionIds : Unsubscribe(c, a)
    \/ \E id \in EbIds : Listen(id)
    \/ \E c \in Clients : HandlerListen(c)
    \/ \E c \in Clients : HandlerListenClosed(c)
    \/ CreateSteps
    \/ PlaceBidSteps
    \/ FinSteps

Spec == Init /\ [][Next]_vars

\* ------------------------------------------------------ creation and expiry
\* auction creation from both sessions and the expiration workers, over an
\* empty store; store and bus operations may fail MaxFaults times
WorkerSteps ==
    \/ \E w \in WorkerIds : CheckExpiredAuctions(w)
    \/ \E r \in DOMAIN fin : FinGet(r)
    \/ \E r \in DOMAIN fin : FinHighest(r)
    \/ \E r \in DOMAIN fin : FinUpdate(r)
    \/ \E r \in DOMAIN fin : FinPublish(r)

NextCreate ==
    \/ ClockTick
    \/ CreateSteps
    \/ \E c \in Clients : Respond(c)
    \/ WorkerSteps

SpecCreate == Init /\ [][NextCreate]_vars

\* one step of some finalization goroutine working on auction a
AttemptStep(a) ==
    \E r \in DOMAIN fin :
        r.a = a /\ (FinGet(r) \/ FinHighest(r) \/ FinUpdate(r) \/ FinPublish(r))

\* The ticker fires every second on every running instance, every goroutine
\* the worker starts runs on, every handler runs on, and time passes.
FairCreate ==
    /\ SpecCreate
    /\ WF_vars(ClockTick)
    /\ \A c \in Clients :
          WF_vars(CreateInsert(c)) /\ WF_vars(ScheduleAuction(c)) /\ WF_vars(Respond(c))
    /\ \A w \in WorkerIds : WF_vars(CheckExpiredAuctions(w))
    /\ \A a \in AuctionIds : WF_vars(AttemptStep(a))

\* -------------------------------------------------- admission and finalization
\* The service running over a store that holds one auction, created earlier by
\* CreateAuction("it1", start 0, end 1, starting price 1) and enrolled in the
\* Timer Index, with both sessions subscribed to it; the stores do not fail.
InitBid ==
    /\ now = 0
    /\ auctions = [a \in AuctionIds |->
                     IF a = 1 THEN NewAuctionRow("it1", 0, 1, 1) ELSE NoRow]
    /\ bids = <<>>
    /\ ti = [a \in AuctionIds |-> IF a = 1 THEN Unix(1) ELSE NoScore]
    /\ clientsToAuction = {<<c, 1>> : c \in Clients}
    /\ bus = <<>>
    /\ call = [c \in Clients |-> IdleCall]
    /\ fin = EmptyBag
    /\ workers = WorkerIds
    /\ budget = 0
    /\ endResults = [a \in AuctionIds |-> 0]
    /\ won = [a \in AuctionIds |-> [p \in Amounts |-> 0]]
    /\ EbInit(clientsToAuction)
    /\ WsInit

\* bids from both sessions against one finalization attempt at a time
NextBid ==
    \/ ClockTick
    \/ PlaceBidSteps
    \/ \E w \in WorkerIds : CheckExpiredAuctions(w) /\ Size(fin') <= 1
    \/ \E a \in AuctionIds : EndAuction(a) /\ Size(fin') <= 1
    \/ \E r \in DOMAIN fin : FinGet(r)
    \/ \E r \in DOMAIN fin : FinHighest(r)
    \/ \E r \in DOMAIN fin : FinUpdate(r)
    \/ \E r \in DOMAIN fin : FinPublish(r)

SpecBid == InitBid /\ [][NextBid]_vars

\* finalization attempts of the fleet and of callers of EndAuction, no bidding
NextEnd ==
    \/ ClockTick
    \/ FinSteps

SpecEnd == InitBid /\ [][NextEnd]_vars

\* the same over a deployment of one instance (one expiration worker)
InitSingle ==
    /\ now = 0
    /\ auctions = [a \in AuctionIds |->
                     IF a = 1 THEN NewAuctionRow("it1", 0, 1, 1) ELSE NoRow]
    /\ bids = <<>>
    /\ ti = [a \in AuctionIds |-> IF a = 1 THEN Unix(1) ELSE NoScore]
    /\ clientsToAuction = {<<c, 1>> : c \in Clients}
    /\ bus = <<>>
    /\ call = [c \in Clients |-> IdleCall]
    /\ fin = EmptyBag
    /\ workers = {"w1"}
    /\ budget = 0
    /\ endResults = [a \in AuctionIds |-> 0]
    /\ won = [a \in AuctionIds |-> [p \in Amounts |-> 0]]
    /\ EbInit(clientsToAuction)
    /\ WsInit

SpecSingle == InitSingle /\ [][NextEnd]_vars

\* ------------------------------------------------------- observation helpers
EndedEvents(a) ==
    {i \in 1..Len(bus) : bus[i].type = "auction.ended" /\ bus[i].auction = a}

Terminal(row) == row.status \in {"ended", "cancelled"}

\* attempts of kind k in flight on auction a, at one of the positions pcs
InFlight(k, a, pcs) ==
    Size([r \in {x \in DOMAIN fin : x.kind = k /\ x.a = a /\ x.pc \in pcs} |-> fin[r]])

\* the step is the conditional UPDATE of an OCC admission on auction a
OccUpdateStepOn(a) ==
    \E c \in Clients : /\ call[c].pc = "bid_upd" /\ call[c].a = a
                       /\ call'[c].pc # "bid_upd"

\* the step publishes an AuctionEnded event
PublishesEnded == /\ Len(bus') = Len(bus) + 1
                  /\ bus'[Len(bus')].type = "auction.ended"

\* ------------------------------------------------------------------ claims
\* admissions alone: no finalization attempt runs beside the bids
NextOcc == ClockTick \/ PlaceBidSteps

SpecOcc == InitBid /\ [][NextOcc]_vars

\* C1: every accepted bid of an auction is above the starting price and above
\* every bid accepted on that auction before it (bids is in commit order), so
\* the prices written by accepted bids are strictly increasing.
C1_AcceptedBidsStrictlyIncrease ==
    \A a \in AuctionIds : \A i \in BidsOf(a) :
        /\ bids[i].amount > auctions[a].startingPrice
        /\ \A j \in BidsOf(a) : j < i => bids[j].amount < bids[i].amount

\* C2: of the OCC admissions on one auction that carry the same expected
\* current price, at most one commits (no two of them both succeed).
C2_OneCommitPerExpectedPrice ==
    \A a \in AuctionIds : \A p \in Amounts : won[a][p] <= 1

\* C3: no step lowers an auction's current_price (finalization included).
C3_PriceNeverDecreases ==
    [][\A a \in AuctionIds :
          auctions'[a].currentPrice >= auctions[a].currentPrice]_vars

\* C4: once an auction is ended or cancelled, the conditional UPDATE of an
\* admission changes neither its current_price nor its bid rows, also when the
\* admission's SELECT saw the auction active.
C4_NoAdmissionAfterTerminal ==
    [][\A a \in AuctionIds :
          Terminal(auctions[a]) /\ OccUpdateStepOn(a) =>
              /\ auctions'[a].currentPrice = auctions[a].currentPrice
              /\ Len(bids') = Len(bids)]_vars

\* C5: for every auction at most one finalization attempt performs the
\* transition to ended and returns an end result.
C5_OneEndResultPerAuction ==
    \A a \in AuctionIds : endResults[a] <= 1

\* C6: every auction stored by CreateAuction is eventually ended once its end
\* time has passed, while the workers keep ticking, also when its enrolment in
\* the Timer Index failed or a finalization attempt returned an error.
C6_StoredAuctionEventuallyEnded ==
    \A a \in AuctionIds :
        (auctions[a] # NoRow /\ auctions[a].endTime <= now) ~> IsEnded(auctions[a])

\* C7: when an auction is ended (and the bus accepts publications), an
\* AuctionEnded event for it is on the bus or an attempt that publishes one
\* after its commit is still running.
C7_EndedAuctionIsAnnounced ==
    \A a \in AuctionIds :
        IsEnded(auctions[a]) =>
            \/ EndedEvents(a) # {}
            \/ InFlight("sched", a, {"high", "upd", "pub"}) > 0

\* C8: with one expiration worker, a due auction has at most one finalization
\* attempt of the worker and at most one AuctionEnded event.
C8_SingleWorkerFinalizesOnce ==
    Cardinality(workers) = 1 =>
        \A a \in AuctionIds :
            /\ InFlight("sched", a, {"get", "high", "upd", "pub"}) <= 1
            /\ Cardinality(EndedEvents(a)) <= 1

\* C10: in every state of AS at most one active auction references an item.
C10_OneActiveAuctionPerItem ==
    \A item \in Items : Cardinality(GetActiveByItemID(item)) <= 1

\* C9: an AuctionEnded event carries the user and amount of the highest
\* accepted bid the auction has in AS when the event is published (the bids
\* admitted while the finalization ran included), and carries no winner
\* exactly when the auction has no accepted bid.
C9_EventCarriesHighestBid ==
    [][PublishesEnded =>
          LET e == bus'[Len(bus')] IN
          \E hb \in GetHighestBid(e.auction) :
              e.user = hb.user /\ e.amount = hb.amount]_vars

\* -------------------------------------------------------------------- C11
\* a creation request that passes every validation before the active-auction
\* check
ValidCreate(c, item, st, en, price) ==
    item \in Items /\ UserOf(c) \in Users /\ st >= now /\ en >= st /\ price > 0

\* C11: a create_auction request (valid otherwise) for an item that has an
\* active auction when its check runs returns ItemAlreadyInAuction and changes
\* neither the auctions table nor the Timer Index.
C11_ActiveItemRejectsCreate ==
    [][\A c \in Clients, item \in ItemIds, st \in Times, en \in Times, p \in Prices :
         (/\ CreateAuction(c, item, st, en, p)
          /\ ValidCreate(c, item, st, en, p)
          /\ GetActiveByItemID(item) # {})
         => /\ call'[c] = Return("ItemAlreadyInAuction")
            /\ auctions' = auctions
            /\ ti' = ti]_vars

\* C11 happens: a creation was rejected for the active auction of the item,
\* and after that auction ended another auction of the item is active
C11_Witness ==
    /\ \E c \in Clients : call[c].ret = "ItemAlreadyInAuction"
    /\ \E a \in AuctionIds, b \in AuctionIds :
          /\ IsEnded(auctions[a]) /\ auctions[b].status = "active"
          /\ auctions[a].item = auctions[b].item
\* -------------------------------------------------------------------- C12
\* this step is a worker attempt on auction a returning an error of the store
\* (GetByID or Update failed), not AuctionAlreadyEnded
AttemptFails(a) ==
    /\ budget' < budget
    /\ \E r \in DOMAIN fin :
          /\ r.kind = "sched" /\ r.a = a /\ r.pc \in {"get", "upd"}
          /\ Count(fin', r) < Count(fin, r)
          /\ Size(fin') < Size(fin)

\* C12: when a worker's finalization attempt fails with an error other than
\* already-ended, the auction's Timer Index entry is kept (so that a later tick
\* attempts the auction again).
C12_FailedAttemptKeepsEntry ==
    [][\A a \in AuctionIds :
         (AttemptFails(a) /\ ti[a] # NoScore) => ti'[a] = ti[a]]_vars

\* -------------------------------------------------------------------- C13
\* the sessions of the precondition check: c1 (user u1) and c3 (no user row)
Sessions == {"c1", "c3"}

\* one auction row, active or ended, started or not, with or without an
\* accepted bid, and any subscription table over the two sessions
InitOrder ==
    /\ now \in Times
    /\ \E status \in {"active", "ended"}, st \in Times, hasBid \in BOOLEAN :
        /\ hasBid => st < now
        /\ auctions = [a \in AuctionIds |->
              IF a = 1
              THEN [NewAuctionRow("it1", st, MaxTime, 1) EXCEPT
                       !.status = status,
                       !.currentPrice = IF hasBid THEN 2 ELSE 1]
              ELSE NoRow]
        /\ bids = IF hasBid
                  THEN <<[auction |-> 1, user |-> "u2", amount |-> 2, createdAt |-> 0]>>
                  ELSE <<>>
        /\ ti = [a \in AuctionIds |->
                   IF a = 1 /\ status = "active" THEN Unix(MaxTime) ELSE NoScore]
        /\ endResults = [a \in AuctionIds |->
                   IF a = 1 /\ status = "ended" THEN 1 ELSE 0]
        /\ won = [a \in AuctionIds |-> [p \in Amounts |->
                   IF a = 1 /\ p = 1 /\ hasBid THEN 1 ELSE 0]]
    /\ clientsToAuction \in SUBSET (Sessions \X AuctionIds)
    /\ bus = <<>>
    /\ call = [c \in Sessions |-> IdleCall]
    /\ fin = EmptyBag
    /\ workers = WorkerIds
    /\ budget = 0
    /\ EbInit(clientsToAuction)
    /\ WsInit

NextOrder ==
    \/ ClockTick
    \/ \E c \in Sessions, a \in AuctionIds, amt \in Amounts : PlaceBid(c, a, amt)
    \/ \E c \in Sessions : BidGetAuction(c)
    \/ \E c \in Sessions : BidGetHighest(c)
    \/ \E c \in Sessions : OccSelect(c)
    \/ \E c \in Sessions : OccUpdate(c)
    \/ \E c \in Sessions : BidPublish(c)
    \/ \E c \in Sessions : Respond(c)

SpecOrder == InitOrder /\ [][NextOrder]_vars

\* the rejection the contract of place_bid names for a request, "pass" when
\* every precondition holds
FirstFailure(c, a, amt) ==
    LET row == auctions[a]
        top == {bids[i].amount : i \in BidsOf(a)}
    IN
    IF <<c, a>> \notin clientsToAuction THEN "NotSubscribed"
    ELSE IF row = NoRow THEN "AuctionNotFound"
    ELSE IF row.status # "active" THEN "AuctionNotAcceptingBids"
    ELSE IF ~(row.startTime < now) THEN "AuctionNotStarted"
    ELSE IF UserOf(c) \notin Users THEN "UserNotFound"
    ELSE IF amt <= 0 THEN "BidAmountInvalid"
    ELSE IF top # {} /\ (\E x \in top : amt <= x) THEN "BidAmountTooLow"
    ELSE IF top = {} /\ amt <= row.startingPrice THEN "BidAmountBelowStarting"
    ELSE "pass"

\* C13: place_bid checks subscribed, auction exists, auction active, auction
\* started, user exists, amount > 0, amount above the current highest, in this
\* order, and returns the rejection of the first precondition that fails.
C13_FirstFailingPreconditionWins ==
    [][\A c \in Sessions :
        /\ \A a \in AuctionIds, amt \in Amounts :
              PlaceBid(c, a, amt) =>
                 IF FirstFailure(c, a, amt) = "NotSubscribed"
                 THEN call'[c] = Return("NotSubscribed")
                 ELSE call'[c].pc = "bid_get"
        /\ (call[c].pc \in {"bid_get", "bid_high"} /\ call'[c] # call[c]) =>
              LET e == FirstFailure(c, call[c].a, call[c].amount) IN
              IF call'[c].pc = "done" THEN call'[c].ret = e
              ELSE IF call[c].pc = "bid_get"
                   THEN e \in {"BidAmountTooLow", "BidAmountBelowStarting", "pass"}
                   ELSE e = "pass"]_vars

\* C13 happens: a request failing two preconditions (no user row, amount 0)
\* got the earlier rejection while another session's bid was too low
C13_Witness ==
    /\ call["c3"].ret = "UserNotFound"
    /\ call["c1"].ret \in {"BidAmountTooLow", "BidAmountBelowStarting"}

\* -------------------------------------------------------------------- C14
\* the positions of a place_bid call before its transaction commits
BeforeCommit == {"idle", "bid_get", "bid_high", "bid_occ", "bid_upd"}

\* C14: a place_bid that returns a rejection has written nothing: every step
\* of a call that does not commit leaves the auctions and bids tables and the
\* bus unchanged, and a call that committed returns the accepted bid.
C14_RejectedBidChangesNothing ==
    [][\A c \in Clients :
        /\ (/\ call[c].pc \in BeforeCommit
            /\ call'[c] # call[c]
            /\ call'[c].pc # "bid_pub")
           => (auctions' = auctions /\ bids' = bids /\ bus' = bus)
        /\ (call[c].pc = "bid_pub" /\ call'[c] # call[c])
           => call'[c] = Return("accepted")]_vars

\* C14 happens: a transaction is past its SELECT while the price it
\* expects is no longer the row's, so its conditional UPDATE affects no row
C14_Witness ==
    \E c \in Clients :
        /\ call[c].pc = "bid_upd"
        /\ ~OccUpdateMatches(auctions[call[c].a], call[c].exp)

\* ------------------------------------------------------------------- C15
\* one active started auction, both sessions subscribed, and a transport that
\* may fail
InitPub ==
    /\ now = 0
    /\ auctions = [a \in AuctionIds |->
                     IF a = 1 THEN NewAuctionRow("it1", 0, 1, 1) ELSE NoRow]
    /\ bids = <<>>
    /\ ti = [a \in AuctionIds |-> IF a = 1 THEN Unix(1) ELSE NoScore]
    /\ clientsToAuction = {<<c, 1>> : c \in Clients}
    /\ bus = <<>>
    /\ call = [c \in Clients |-> IdleCall]
    /\ fin = EmptyBag
    /\ workers = WorkerIds
    /\ budget = MaxFaults
    /\ endResults = [a \in AuctionIds |-> 0]
    /\ won = [a \in AuctionIds |-> [p \in Amounts |-> 0]]
    /\ EbInit(clientsToAuction)
    /\ WsInit

SpecPub == InitPub /\ [][NextOcc]_vars

\* C15: the step after the commit (subscription-ensure, then publish) returns
\* the bid as accepted whatever the transport answers, and leaves the stored
\* bid and the auction's price as the commit wrote them
C15_AcceptedDespitePublishFailure ==
    [][\A c \in Clients :
         (call[c].pc = "bid_pub" /\ call'[c] # call[c]) =>
             /\ call'[c] = Return("accepted")
             /\ bids' = bids
             /\ auctions' = auctions]_vars

\* a bid was committed and returned as accepted while its event never reached
\* the bus
C15_Witness ==
    \E c \in Clients :
        /\ call[c].ret = "accepted"
        /\ budget < MaxFaults
        /\ Len(bids) = 1
        /\ auctions[1].currentPrice = bids[1].amount
        /\ bus = <<>>


\* ------------------------------------------------------------------- C16
\* C16: a successful place_bid leaves its session subscribed and creates
\* nothing under another id: every id that has a subscription, a registered
\* channel or a pubsub connection is the id of a session
C16_OnlySessionsAreSubscribed ==
    \A id \in EbIds :
        (\/ id \in subscribers
         \/ pubsubs[id] # NoPubSub
         \/ \E a \in AuctionIds : <<id, a>> \in clientsToAuction) => id \in SessionIds


\* ------------------------------------------------------------------- C17
\* one active started auction that both sessions are subscribed to, a transport
\* without faults; sessions subscribe, unsubscribe and bid while the listener
\* goroutines and the handlers' event loops forward what is published
InitFan ==
    /\ now = 1
    /\ auctions = [a \in AuctionIds |->
                     IF a = 1 THEN NewAuctionRow("it1", 0, 1, 1) ELSE NoRow]
    /\ bids = <<>>
    /\ ti = [a \in AuctionIds |-> IF a = 1 THEN Unix(1) ELSE NoScore]
    /\ clientsToAuction = {<<c, 1>> : c \in Clients}
    /\ bus = <<>>
    /\ call = [c \in Clients |-> IdleCall]
    /\ fin = EmptyBag
    /\ workers = WorkerIds
    /\ budget = 0
    /\ endResults = [a \in AuctionIds |-> 0]
    /\ won = [a \in AuctionIds |-> [p \in Amounts |-> 0]]
    /\ EbInit(clientsToAuction)
    /\ WsInit

\* the session that bids
Bidders == {"c1"}

NextFan ==
    \/ \E c \in Bidders, a \in AuctionIds, amt \in Amounts : PlaceBid(c, a, amt)
    \/ \E c \in Bidders : BidGetAuction(c)
    \/ \E c \in Bidders : BidGetHighest(c)
    \/ \E c \in Bidders : OccSelect(c)
    \/ \E c \in Bidders : OccUpdate(c)
    \/ \E c \in Bidders : BidPublish(c)
    \/ \E c \in Bidders : Respond(c)
    \/ \E c \in Clients : Subscribe(c, 1)
    \/ \E c \in Clients : Unsubscribe(c, 1)
    \/ \E id \in EbIds : Listen(id)
    \/ \E c \in Clients : HandlerListen(c)

SpecFan == InitFan /\ [][NextFan]_vars


\* the bid_placed frame of the i-th admitted bid
FrameOf(i) == BidPlacedEvent(bids[i].auction, bids[i].user, bids[i].amount)

\* nothing on its way to session c: every committed bid went through its
\* publish step, and c's pubsub connection and event channel are drained
Drained(c) ==
    /\ \A b \in Clients : call[b].pc # "bid_pub"
    /\ inbox[c] = <<>>
    /\ sinks[c] = <<>>

\* C17: a session whose channel never was full has, once nothing is on its
\* way, a bid_placed frame for every bid admitted since it subscribed, no
\* bid_placed frame twice, and none for a bid that was not admitted
C17_FramesCoverAdmittedBids ==
    \A c \in Clients :
        /\ (Drained(c) /\ drops[c] = 0) =>
              \A i \in owed[c] : \E k \in DOMAIN frames[c] : frames[c][k] = FrameOf(i)
        /\ \A k, l \in DOMAIN frames[c] :
              (k # l /\ frames[c][k].type = "bid.placed") => frames[c][k] # frames[c][l]
        /\ \A k \in DOMAIN frames[c] :
              frames[c][k].type = "bid.placed" =>
                  \E i \in DOMAIN bids : frames[c][k] = FrameOf(i)


\* ------------------------------------------------------------------- C18
\* the channel of id is open and has no room
SinkFull(id) == id \notin chanClosed /\ Len(sinks[id]) >= Cap(id)

\* C18: a listener that finds its channel full drops the event for its own
\* subscriber and records the drop, touching no other subscriber; a listener
\* whose channel has room forwards the event; a publish reaches the connection
\* of every subscriber of the topic, and the publisher's step is enabled
\* whatever the channels hold
C18_FullSinkDropsForThatSubscriberOnly ==
    /\ [][\A id \in EbIds : Listen(id) =>
            /\ SinkFull(id) =>
                 /\ drops'[id] = drops[id] + 1
                 /\ sinks' = sinks
            /\ (id \notin chanClosed /\ ~SinkFull(id)) =>
                 /\ sinks'[id] = Append(sinks[id], Head(inbox[id]))
                 /\ drops' = drops
            /\ \A o \in EbIds \ {id} :
                 inbox'[o] = inbox[o] /\ sinks'[o] = sinks[o] /\ drops'[o] = drops[o]]_vars
    /\ [][\A c \in Clients : (BidPublish(c) /\ bus' # bus) =>
            \A id \in EbIds :
                (pubsubs'[id] # NoPubSub /\ call[c].a \in pubsubs'[id]) =>
                    inbox'[id] = Append(inbox[id], bus'[Len(bus')])]_vars
    /\ [](\A c \in Clients : call[c].pc = "bid_pub" => ENABLED BidPublish(c))

\* one session dropped an event that the other session received: the other
\* has every published event as a frame
C18_Witness ==
    \E c, d \in Clients :
        /\ c # d
        /\ drops[c] > 0
        /\ Len(bus) = 2
        /\ frames[d] = bus


\* ------------------------------------------------------------------- C19
\* C19: subscribing again to an auction the client is subscribed to changes
\* nothing in the broadcaster and meets no transport call that could fail, and
\* no session has the same bid_placed frame twice
C19_RepeatedSubscribeIsIdempotent ==
    /\ \A c \in Clients, a \in AuctionIds :
          IsSubscribed(a, c) =>
              /\ SubscribeOp(EbTables, c, a, "ok") = EbTables
              /\ SubOutcomes(c, a) = {"ok"}
    /\ \A c \in Clients, a \in AuctionIds, o \in Outcomes :
          LET once == SubscribeOp(EbTables, c, a, o) IN
          \A o2 \in Outcomes : SubscribeOp(once, c, a, o2) = once
    /\ \A c \in Clients : \A k, l \in DOMAIN frames[c] :
          (k # l /\ frames[c][k].type = "bid.placed") => frames[c][k] # frames[c][l]

\* a subscribed session, for which a further subscribe is the case above, that
\* has received each of two published bids once
C19_Witness ==
    \E c \in Clients :
        /\ IsSubscribed(1, c)
        /\ c \in listening
        /\ drops[c] = 0
        /\ Len(bus) = 2
        /\ frames[c] = bus


\* ------------------------------------------------------------------- C20
\* sessions subscribe to and unsubscribe from every auction while one of them
\* bids
NextTopics ==
    \/ \E c \in Bidders, a \in AuctionIds, amt \in Amounts : PlaceBid(c, a, amt)
    \/ \E c \in Bidders : BidGetAuction(c)
    \/ \E c \in Bidders : BidGetHighest(c)
    \/ \E c \in Bidders : OccSelect(c)
    \/ \E c \in Bidders : OccUpdate(c)
    \/ \E c \in Bidders : BidPublish(c)
    \/ \E c \in Bidders : Respond(c)
    \/ \E c \in Clients, a \in AuctionIds : Subscribe(c, a)
    \/ \E c \in Clients, a \in AuctionIds : Unsubscribe(c, a)

SpecTopics == InitFan /\ [][NextTopics]_vars

\* the auctions id is subscribed to in the table cta
TopicsOf(cta, id) == {a \in AuctionIds : <<id, a>> \in cta}

\* C20: an unsubscribe of a subscribed session leaves it not subscribed to
\* that auction, so that its next place_bid there is answered NotSubscribed,
\* leaves every other subscription as it was, and leaves the session's channel
\* closed if and only if the session has no auction left
C20_UnsubscribeClosesSinkIffLastTopic ==
    /\ [][\A c \in Clients, a \in AuctionIds :
            (Unsubscribe(c, a) /\ IsSubscribed(a, c)) =>
                /\ <<c, a>> \notin clientsToAuction'
                /\ clientsToAuction' \ {<<c, a>>} = clientsToAuction \ {<<c, a>>}
                /\ (c \in chanClosed') <=> (TopicsOf(clientsToAuction', c) = {})]_vars
    /\ [][\A c \in Clients, a \in AuctionIds, amt \in Amounts :
            (PlaceBid(c, a, amt) /\ ~IsSubscribed(a, c)) =>
                call'[c] = Return("NotSubscribed")]_vars


\* ------------------------------------------------------------------- C21
\* both sessions connected and subscribed to one active started auction; peers
\* send frames and close, one session bids, the transport may fail once
InitSession ==
    /\ now = 1
    /\ auctions = [a \in AuctionIds |->
                     IF a = 1 THEN NewAuctionRow("it1", 0, 1, 1) ELSE NoRow]
    /\ bids = <<>>
    /\ ti = [a \in AuctionIds |-> IF a = 1 THEN Unix(1) ELSE NoScore]
    /\ clientsToAuction = {<<c, 1>> : c \in Clients}
    /\ bus = <<>>
    /\ call = [c \in Clients |-> IdleCall]
    /\ fin = EmptyBag
    /\ workers = WorkerIds
    /\ budget = MaxFaults
    /\ endResults = [a \in AuctionIds |-> 0]
    /\ won = [a \in AuctionIds |-> [p \in Amounts |-> 0]]
    /\ EbInit(clientsToAuction)
    /\ WsInit

\* the session whose peer sends frames and closes the transport
Peers == {"c2"}

NextSession ==
    \/ \E c \in Bidders, amt \in Amounts :
          "reader" \in running[c] /\ PlaceBid(c, 1, amt)
    \/ \E c \in Bidders : BidGetAuction(c)
    \/ \E c \in Bidders : BidGetHighest(c)
    \/ \E c \in Bidders : OccSelect(c)
    \/ \E c \in Bidders : OccUpdate(c)
    \/ \E c \in Bidders : BidPublish(c)
    \/ \E c \in Bidders : Respond(c)
    \/ \E c \in Peers : Listen(c)
    \/ \E c \in Peers, f \in FrameKinds : ReadFrame(c, f)
    \/ \E c \in Peers : PeerClose(c)
    \/ \E c \in Peers : Worker(c)
    \/ \E c \in Peers, i \in 1..MaxWire : SendEnqueue(c, i)
    \/ \E c \in Peers : WriterSend(c)
    \/ \E c \in Peers : WriterExit(c)
    \/ \E c \in Peers : EventSend(c)
    \/ \E c \in Peers : EventsExit(c)
    \/ \E c \in Peers : Unregister(c)

SpecSession == InitSession /\ [][NextSession]_vars

\* the goroutines of the service are scheduled; peers owe nothing
FairSession ==
    /\ SpecSession
    /\ \A c \in Bidders :
         /\ WF_vars(BidGetAuction(c)) /\ WF_vars(BidGetHighest(c))
         /\ WF_vars(OccSelect(c)) /\ WF_vars(OccUpdate(c))
         /\ WF_vars(BidPublish(c)) /\ WF_vars(Respond(c))
    /\ \A c \in Peers :
         /\ WF_vars(Listen(c))
         /\ WF_vars(Worker(c)) /\ WF_vars(WriterSend(c)) /\ WF_vars(WriterExit(c))
         /\ \A i \in 1..MaxWire : WF_vars(SendEnqueue(c, i))
         /\ WF_vars(EventSend(c)) /\ WF_vars(EventsExit(c)) /\ WF_vars(Unregister(c))


\* no goroutine of session c runs and no frame waits in its pool
TasksStopped(c) == running[c] = {} /\ pool[c] = <<>>

\* the broadcaster holds nothing under id: no subscription, no channel, no
\* pubsub connection, no listener
EbHoldsNothing(id) ==
    /\ \A a \in AuctionIds : <<id, a>> \notin clientsToAuction
    /\ id \notin subscribers
    /\ pubsubs[id] = NoPubSub
    /\ id \notin listening

\* C21: once a session's context is cancelled (its transport closed), the
\* session eventually is out of the registry, its goroutines and pool have
\* stopped, its event channel is closed, and the broadcaster holds nothing
\* under its id
C21_ClosedSessionIsReleased ==
    \A c \in Peers :
        (c \in cancelled) ~>
            (/\ c \notin registry
             /\ TasksStopped(c)
             /\ c \in chanClosed
             /\ EbHoldsNothing(c))


\* ------------------------------------------------------------------- C22
\* C22: every write to a session's connection is made by its messageSender
\* goroutine, with a message taken from sendChan
C22_OnlyTheWriterWrites ==
    \A c \in SessionIds : \A k \in DOMAIN wire[c] : wire[c][k][1] = "writer"


\* ------------------------------------------------------------------- C23
\* C23: after a frame that does not parse, a failed write of the writer, or a
\* Send that found the queue full, the session is eventually cancelled and out
\* of the registry; a session on which none of them happened is not cancelled
\* by them
C23_SessionFailureIsFatal ==
    /\ \A c \in Peers :
          (fatal[c] # {}) ~> (c \in cancelled /\ c \notin registry)
    /\ [](\A c \in Clients \ Peers : c \notin cancelled /\ c \in registry)


\* ------------------------------------------------------------------- C24
\* C24: GetSubscribers of an auction returns exactly the ids that hold a
\* subscription to that auction
C24_SubscribersOfTheTopic ==
    \A a \in AuctionIds :
        GetSubscribers(EbTables, a) = {id \in EbIds : <<id, a>> \in clientsToAuction}


\* ------------------------------------------------------------------- C25
\* C25: every stored auction starts strictly before it ends (a request with
\* end_time <= start_time is rejected and stores nothing)
C25_StoredAuctionStartsBeforeItEnds ==
    \A a \in AuctionIds :
        auctions[a] # NoRow => auctions[a].startTime < auctions[a].endTime


\* ------------------------------------------------------------------- C26
\* C26: the bid of a subscribed session on an existing active auction is
\* answered AuctionNotStarted exactly when now < start_time
C26_NotStartedExactlyBeforeStart ==
    [][\A c \in Sessions :
         LET row == auctions[call[c].a] IN
         (BidGetAuction(c) /\ row # NoRow /\ CanBid(row)) =>
            ((call'[c] = Return("AuctionNotStarted")) <=> (now < row.startTime))]_vars


\* ------------------------------------------------------------------- C27
\* the place of a published event on the bus
BusIndex(ev) == CHOOSE i \in DOMAIN bus : bus[i] = ev

\* the message was published on the bus
Published(m) == \E i \in DOMAIN bus : bus[i] = m

AmountsOn(a) == {bids[i].amount : i \in {j \in DOMAIN bids : bids[j].auction = a}}

\* C28: in every committed state the current price of an auction is the
\* highest amount among its bids, or its starting price when it has none
C28_PriceIsHighestBid ==
    \A a \in AuctionIds :
        auctions[a] # NoRow =>
            IF AmountsOn(a) = {}
            THEN auctions[a].currentPrice = auctions[a].startingPrice
            ELSE /\ auctions[a].currentPrice \in AmountsOn(a)
                 /\ \A m \in AmountsOn(a) : m <= auctions[a].currentPrice

\* -------------------------------------------------------------------- C29
\* C29: a tick of the expiration worker selects only Timer Index entries whose
\* score is at most the tick's time, at most BatchSize of them, and so it starts
\* no finalization of an auction whose end time is later than the present time.
C29_TickStartsOnlyExpiredAuctions ==
    [][\A w \in WorkerIds :
         CheckExpiredAuctions(w) =>
            /\ Size(fin') - Size(fin) <= BatchSize
            /\ \A r \in DOMAIN fin' :
                  Count(fin', r) > Count(fin, r) =>
                     /\ r.kind = "sched"
                     /\ ti[r.a] # NoScore /\ ti[r.a] <= Unix(now)
                     /\ auctions[r.a].endTime <= now]_vars

\* -------------------------------------------------------------------- C30
\* this step is the return of a worker's endAuction on auction a
WorkerAttemptEnds(a) ==
    /\ Size(fin') < Size(fin)
    /\ \E r \in DOMAIN fin :
          r.kind = "sched" /\ r.a = a /\ Count(fin', r) < Count(fin, r)

\* C30: when a finalization attempt of the expiration worker ends, with a
\* result, with AuctionAlreadyEnded or with an error, the auction has no Timer
\* Index entry any more; the other entries are untouched, and when the entry
\* was already removed the Timer Index is left as it was.
C30_EndedAttemptRemovesEntry ==
    [][\A a \in AuctionIds :
         WorkerAttemptEnds(a) =>
            /\ ti'[a] = NoScore
            /\ \A b \in AuctionIds \ {a} : ti'[b] = ti[b]
            /\ (ti[a] = NoScore => ti' = ti)]_vars

\* C30 happens: an attempt on an auction ended with an error of the store (the
\* auction is still active) and removed the entry, while a second attempt
\* on the same auction is still to run and will find no entry to remove
C30_Witness ==
    \E r \in DOMAIN fin :
        /\ r.kind = "sched" /\ r.pc = "get"
        /\ ti[r.a] = NoScore
        /\ auctions[r.a].status = "active"
        /\ budget < MaxFaults

\* -------------------------------------------------------------------- C31
\* C31: a Send ends by queueing its message or by returning an error (channel
\* full after the wait, or client stopped), and an error leaves sendChan as it
\* was; sendChan never holds more than its capacity.
C31_SendQueuesOrFails ==
    /\ [](\A c \in SessionIds : Len(sendq[c]) <= SendCap)
    /\ [][\A c \in SessionIds :
            /\ (Worker(c) \/ EventSend(c)) => sendq'[c] = sendq[c]
            /\ \A i \in 1..MaxWire :
                 SendEnqueue(c, i) =>
                    \/ /\ sendq'[c] = Append(sendq[c], sending[c][i][2])
                       /\ fatal'[c] = fatal[c]
                    \/ /\ sendq'[c] = sendq[c]
                       /\ "send_on_closed" \notin fatal'[c]]_vars

\* -------------------------------------------------------------------- C37
\* C37: no Send puts a message on sendChan after Stop has closed it (a Send
\* racing with Stop queues before the close or returns the stopped error),
\* and Stop closes sendChan once: no step stops a stopped client again.
C37_NoSendOnClosedQueue ==
    [][\A c \in SessionIds :
         /\ \A i \in 1..MaxWire : SendEnqueue(c, i) => c \notin stopped
         /\ c \in stopped => ~Unregister(c)]_vars

\* -------------------------------------------------------------------- C32
\* the places on the bus of the BidPlaced events of auction a
PlacedEvents(a) ==
    {i \in DOMAIN bus : bus[i].type = "bid.placed" /\ bus[i].auction = a}

\* the place among the committed bids of the bid an event announces
CommitIndex(ev) ==
    CHOOSE k \in DOMAIN bids :
        /\ bids[k].auction = ev.auction
        /\ bids[k].user = ev.user /\ bids[k].amount = ev.amount

\* C32: the BidPlaced events of one auction are on the bus in the order in
\* which their bids were committed, so their amounts strictly increase.
C32_EventsInCommitOrder ==
    \A a \in AuctionIds : \A i, j \in PlacedEvents(a) :
        i < j => /\ CommitIndex(bus[i]) < CommitIndex(bus[j])
                 /\ bus[i].amount < bus[j].amount

\* -------------------------------------------------------------------- C33
\* sessions subscribing and unsubscribing over a transport that may fail,
\* while a session bids
SpecSub == InitSession /\ [][NextTopics]_vars

\* C33: a subscribe that fails at the transport records nothing: the session
\* is not subscribed afterwards, and whoever is recorded as subscribed to an
\* auction has the auction's Redis channel on its pubsub connection (so a
\* retry of a failed subscribe goes to the transport again).
C33_FailedSubscribeIsNotRecorded ==
    /\ [][\A c \in Clients, a \in AuctionIds :
            (Subscribe(c, a) /\ budget' < budget) => <<c, a>> \notin clientsToAuction']_vars
    /\ [](\A c \in Clients, a \in AuctionIds :
            IsSubscribed(a, c) => a \in pubsubs[c])

\* -------------------------------------------------------------------- C34
\* this step closes the event channel of session c: a last-topic Unsubscribe
\* that finds the channel registered, or removeEventChannel at teardown
ClosesSink(c) ==
    \/ /\ \E a \in AuctionIds : Unsubscribe(c, a)
       /\ c \in subscribers
       /\ \E a \in AuctionIds : <<c, a>> \in clientsToAuction
       /\ ~\E a \in AuctionIds : <<c, a>> \in clientsToAuction'
    \/ Unregister(c) /\ c \in evch

\* C34: a session's event channel is closed at most once, and the listener
\* sends nothing on it once it is closed.
C34_SinkClosedOnceAndNotWrittenAfter ==
    [][\A c \in Clients : (ClosesSink(c) \/ Listen(c)) => c \notin chanClosed]_vars

\* -------------------------------------------------------------------- C35
\* A session that unsubscribes and subscribes again on auction 1 while another
\* session bids; the session's event listener forwards what its channel yields
\* to Send, and its writer writes
NextResub ==
    \/ \E c \in Bidders, amt \in Amounts : PlaceBid(c, 1, amt)
    \/ \E c \in Bidders : BidGetAuction(c)
    \/ \E c \in Bidders : BidGetHighest(c)
    \/ \E c \in Bidders : OccSelect(c)
    \/ \E c \in Bidders : OccUpdate(c)
    \/ \E c \in Bidders : BidPublish(c)
    \/ \E c \in Bidders : Respond(c)
    \/ \E c \in Peers : Subscribe(c, 1)
    \/ \E c \in Peers : Unsubscribe(c, 1)
    \/ \E c \in Peers : Listen(c)
    \/ \E c \in Peers : EventSend(c)
    \/ \E c \in Peers, i \in 1..MaxWire : SendEnqueue(c, i)
    \/ \E c \in Peers : WriterSend(c)

SpecResub == InitFan /\ [][NextResub]_vars

\* the goroutines of the service are scheduled; the peer owes nothing
FairResub ==
    /\ SpecResub
    /\ \A c \in Bidders :
         /\ WF_vars(BidGetAuction(c)) /\ WF_vars(BidGetHighest(c))
         /\ WF_vars(OccSelect(c)) /\ WF_vars(OccUpdate(c))
         /\ WF_vars(BidPublish(c)) /\ WF_vars(Respond(c))
    /\ \A c \in Peers :
         /\ WF_vars(Listen(c)) /\ WF_vars(EventSend(c)) /\ WF_vars(WriterSend(c))
         /\ \A i \in 1..MaxWire : WF_vars(SendEnqueue(c, i))

\* C35: every message the event listener of a session hands to Send is made
\* from an event that was published on an auction; once the session has
\* unsubscribed from its last topic and its channel is closed, the listener
\* hands Send nothing more.
C35_ListenerFramesArePublishedEvents ==
    /\ [](\A c \in Peers : \A i \in DOMAIN sending[c] :
             sending[c][i][1] = "events" => Published(sending[c][i][2]))
    /\ [][\A c \in Peers :
            (c \in chanClosed /\ ~\E a \in AuctionIds : IsSubscribed(a, c))
               => ~EventSend(c)]_vars

\* -------------------------------------------------------------------- C36
\* session c subscribed again after its channel was closed by a last-topic
\* unsubscribe, and bid i was admitted on the auction since
OwedAfterResubscribe(c, i) ==
    /\ c \in chanClosed
    /\ i \in DOMAIN bids /\ i \in owed[c]

\* C36: a session that unsubscribed from its last topic and subscribed again
\* gets the frame of every bid admitted on the auction while it stays
\* subscribed, unless one of its queues was full.
C36_ResubscribedSessionReceives ==
    \A c \in Peers : \A i \in 1..MaxAmount :
        OwedAfterResubscribe(c, i) ~>
            \/ i \notin owed[c]
            \/ \E k \in DOMAIN wire[c] : wire[c][k] = <<"writer", FrameOf(i)>>
            \/ drops[c] > 0 \/ "queue_full" \in fatal[c]

\* -------------------------------------------------------------------- C38
\* One active, started auction and sessions that are subscribed to nothing;
\* the stores and the transport do not fail
InitFrames ==
    /\ now = 1
    /\ auctions = [a \in AuctionIds |->
                     IF a = 1 THEN NewAuctionRow("it1", 0, 1, 1) ELSE NoRow]
    /\ bids = <<>>
    /\ ti = [a \in AuctionIds |-> IF a = 1 THEN Unix(1) ELSE NoScore]
    /\ clientsToAuction = {}
    /\ bus = <<>>
    /\ call = [c \in Clients |-> IdleCall]
    /\ fin = EmptyBag
    /\ workers = WorkerIds
    /\ budget = 0
    /\ endResults = [a \in AuctionIds |-> 0]
    /\ won = [a \in AuctionIds |-> [p \in Amounts |-> 0]]
    /\ EbInit(clientsToAuction)
    /\ WsInit

\* the request frames of a session, for auction 1
HandlerFrames == {"subscribe", "place_bid"}

\* a session sends subscribe and place_bid frames, which its pool handles
NextFrames ==
    \/ \E c \in Bidders, f \in HandlerFrames : ReadFrame(c, f)
    \/ \E c \in Bidders, i \in 1..MaxWire : WorkerSubscribe(c, i)
    \/ \E c \in Bidders, i \in 1..MaxWire, amt \in Amounts : WorkerPlaceBid(c, i, amt)
    \/ \E c \in Bidders : BidGetAuction(c)
    \/ \E c \in Bidders : BidGetHighest(c)
    \/ \E c \in Bidders : OccSelect(c)
    \/ \E c \in Bidders : OccUpdate(c)
    \/ \E c \in Bidders : BidPublish(c)
    \/ \E c \in Bidders : Respond(c)
    \/ \E c \in Bidders : Listen(c)
    \/ \E c \in Bidders : EventSend(c)
    \/ \E c \in Bidders, i \in 1..MaxWire : SendEnqueue(c, i)
    \/ \E c \in Bidders : WriterSend(c)

SpecFrames == InitFrames /\ [][NextFrames]_vars

\* C38: a place_bid frame that arrived after a subscribe frame of the session
\* for the same auction (the subscribe is ahead of it in the pool, or was
\* handled and recorded) is not rejected with NotSubscribed.
C38_FramesTakeEffectInArrivalOrder ==
    [][\A c \in Bidders, i \in 1..MaxWire, amt \in Amounts :
         (/\ WorkerPlaceBid(c, i, amt)
          /\ \/ IsSubscribed(1, c)
             \/ \E j \in 1..(i - 1) : pool[c][j] = "subscribe")
         => call'[c].ret # "NotSubscribed"]_vars

====
